---- MODULE Spec2Model ----
(***************************************************************************)
(* A model of openssl/src/ssl/connector.rs: the secure-default TLS         *)
(* connector / acceptor builders, the per-connection ConnectConfiguration  *)
(* and the hostname verification of the `verify` module.                   *)
(*                                                                         *)
(* A Rust &str is modelled as a sequence of one-character strings (all     *)
(* characters used are ASCII, so byte offsets and character offsets        *)
(* coincide).  Offsets are 0-based as in the source; a slice s[a..b] is    *)
(* Slice(s, a, b).                                                         *)
(***************************************************************************)
EXTENDS Integers, Sequences, FiniteSets, TLC

VARIABLES
    \* ---- identity matcher harness (SpecDns)
    pattern,        \* the `pattern` argument
    hostname,       \* the `hostname` argument
    op,             \* which function has been applied: "init", "wildcard", "dns"
    ret,            \* its return value
    \* ---- a client connection attempt (Spec)
    build,          \* the cfg_if branch compiled in: "callback" or "native"
    pc,             \* position of the attempt
    conf,           \* the ConnectConfiguration { ssl, sni, verify_hostname }
    setlog,         \* the setter calls made on conf, in order
    calls,          \* the calls connect() made on conf.ssl, in order
    domain,         \* the domain passed to connect()
    cert,           \* x509_ctx.current_cert()
    depth,          \* x509_ctx.error_depth()
    error,          \* x509_ctx's verification-result code
    last,           \* the most recent verify_callback invocation
    \* ---- building a profile and accepting with it (SpecProfile)
    platform,       \* the library linked against: cfg flags and version::number()
    profile,        \* "none", "client", "intermediate" or "modern"
    stage,          \* "none", "builder", "frozen", "accepted", "rejected"
    ctxb,           \* the SslContextBuilder / SslContext
    offer,          \* what a client offers: a protocol version and cipher suites
    chosen          \* the cipher suite the acceptor selected

dnsvars == <<pattern, hostname, op, ret>>
connvars == <<build, pc, conf, setlog, calls, domain, cert, depth, error, last>>
profvars == <<platform, profile, stage, ctxb, offer, chosen>>
vars == <<dnsvars, connvars, profvars>>

(***************************************************************************)
(* Bounds of the model.                                                    *)
(***************************************************************************)
MaxPatLen == 5
MaxHostLen == 4
MaxSan == 2
MaxChain == 2
MaxSetterCalls == 2
MaxOffer == 1

(***************************************************************************)
(* &str primitives of the Rust standard library.                           *)
(***************************************************************************)
Slice(s, a, b) == SubSeq(s, a + 1, b)

starts_with(s, p) == Len(p) <= Len(s) /\ SubSeq(s, 1, Len(p)) = p

ends_with(s, p) == Len(p) <= Len(s) /\ SubSeq(s, Len(s) - Len(p) + 1, Len(s)) = p

\* str::find(char): the 0-based offset of the first occurrence, -1 for None.
str_find(s, c) ==
    IF \E i \in 1..Len(s) : s[i] = c
    THEN (CHOOSE i \in 1..Len(s) : s[i] = c /\ \A j \in 1..(i - 1) : s[j] # c) - 1
    ELSE -1

\* str::match_indices(char).map(|(l, _)| l): the 0-based offsets, ascending.
RECURSIVE match_indices_from(_, _, _)
match_indices_from(s, c, i) ==
    IF i > Len(s) THEN <<>>
    ELSE IF s[i] = c THEN <<i - 1>> \o match_indices_from(s, c, i + 1)
    ELSE match_indices_from(s, c, i + 1)

match_indices(s, c) == match_indices_from(s, c, 1)

\* All strings over alphabet A of length at most n.
RECURSIVE StringsUpTo(_, _)
StringsUpTo(A, n) ==
    IF n = 0 THEN {<<>>}
    ELSE LET shorter == StringsUpTo(A, n - 1)
         IN shorter \cup {Append(s, c) : s \in shorter, c \in A}

(***************************************************************************)
(* Option<bool>.                                                           *)
(***************************************************************************)
None == "None"
Some(b) == IF b THEN "Some(true)" ELSE "Some(false)"

(***************************************************************************)
(* verify::matches_wildcard and verify::matches_dns.                       *)
(***************************************************************************)
AcePrefix == <<"x", "n", "-", "-">>

\* matches_wildcard, lines 441-472: the conditions on the pattern alone under
\* which wildcard matching is inapplicable.
wildcard_inapplicable(pat) ==
    LET wildcard_location == str_find(pat, "*")
        dot_idxs == match_indices(pat, ".")
    IN  IF starts_with(pat, AcePrefix) THEN TRUE
        ELSE IF wildcard_location = -1 THEN TRUE
        ELSE IF Len(dot_idxs) = 0 THEN TRUE
        ELSE IF Len(dot_idxs) < 2 THEN TRUE
        ELSE wildcard_location > dot_idxs[1]

\* A variant that compares only the parts after the first label.
wildcard_compare_tail_only(pat, host) ==
    Slice(pat, match_indices(pat, ".")[1], Len(pat))
        = Slice(host, str_find(host, "."), Len(host))

\* matches_wildcard, lines 479-499: the comparison made once the pattern is a
\* usable wildcard and the hostname has a '.'.
wildcard_compare(pat, host) ==
    LET wildcard_location == str_find(pat, "*")
        wildcard_end == match_indices(pat, ".")[1]
        hostname_label_end == str_find(host, ".")
    IN  IF Slice(pat, wildcard_end, Len(pat)) # Slice(host, hostname_label_end, Len(host))
        THEN FALSE
        ELSE
          LET wildcard_prefix == Slice(pat, 0, wildcard_location)
              wildcard_suffix == Slice(pat, wildcard_location + 1, wildcard_end)
              hostname_label == Slice(host, 0, hostname_label_end)
          IN  IF ~starts_with(hostname_label, wildcard_prefix) THEN FALSE
              ELSE IF ~ends_with(Slice(hostname_label, Len(wildcard_prefix),
                                       Len(hostname_label)),
                                 wildcard_suffix)
                   THEN FALSE
              ELSE TRUE

\* A variant that answers Some(false) for a hostname without a '.'.
matches_wildcard_any_hostname(pat, host) ==
    IF wildcard_inapplicable(pat) THEN None
    ELSE IF str_find(host, ".") = -1 THEN Some(FALSE)
    ELSE Some(wildcard_compare(pat, host))

matches_wildcard(pat, host) ==
    IF wildcard_inapplicable(pat) THEN None
    ELSE IF str_find(host, ".") = -1 THEN None
    ELSE Some(wildcard_compare(pat, host))

\* The normalisation matches_dns applies to each argument: one trailing '.'
\* is removed.
StripTrailingDot_never(s) == s

StripTrailingDot(s) ==
    IF ends_with(s, <<".">>) THEN Slice(s, 0, Len(s) - 1) ELSE s

\* ASCII lower-casing, used only by the case-folding variant below.
ToLower(s) ==
    [i \in 1..Len(s) |-> IF s[i] = "A" THEN "a" ELSE IF s[i] = "E" THEN "e" ELSE s[i]]

matches_dns_case_folding(pat, host) ==
    LET p == StripTrailingDot(pat)
        h == StripTrailingDot(host)
        w == matches_wildcard(p, h)
    IN  IF w = None THEN ToLower(p) = ToLower(h) ELSE w = Some(TRUE)

matches_dns(pat, host) ==
    LET p == StripTrailingDot(pat)
        h == StripTrailingDot(host)
        w == matches_wildcard(p, h)
    IN  IF w = None THEN p = h ELSE w = Some(TRUE)

\* The names the documentation and tests of the matcher use.
Dot == <<".">>
Star == <<"*">>
Foo == <<"f", "o", "o">>
Bar == <<"b", "a", "r">>
Www == <<"w", "w", "w">>
Com == <<"c", "o", "m">>
Example == <<"e", "x", "a", "m", "p", "l", "e">>
ExampleCom == Example \o Dot \o Com
ExampleComDot == ExampleCom \o Dot
CapExampleCom == <<"E">> \o Tail(Example) \o Dot \o Com
FooExampleCom == Foo \o Dot \o ExampleCom
WwwExampleCom == Www \o Dot \o ExampleCom
FooBarExampleCom == Foo \o Dot \o Bar \o Dot \o ExampleCom
StarExampleCom == Star \o Dot \o ExampleCom
FooStarExampleCom == Foo \o Dot \o Star \o Dot \o ExampleCom
StarCom == Star \o Dot \o Com
AceStarExampleCom == AcePrefix \o Star \o Dot \o ExampleCom
AceAExampleCom == AcePrefix \o <<"a">> \o Dot \o ExampleCom

(***************************************************************************)
(* Option<T> for the other types: Absent is None, Present(x) is Some(x).   *)
(***************************************************************************)
Absent == <<>>
Present(x) == <<x>>
Unwrap(o) == o[1]

(***************************************************************************)
(* domain.parse::<IpAddr>() of the Rust standard library: a dotted quad of *)
(* decimal octets without leading zeros, or colon-separated groups of one  *)
(* to four hex digits with at most one "::" (an embedded dotted quad is    *)
(* not modelled; no input of the model has one).                           *)
(***************************************************************************)
DecDigits == <<"0", "1", "2", "3", "4", "5", "6", "7", "8", "9">>
HexDigits == DecDigits \o <<"a", "b", "c", "d", "e", "f">>
HexUpper == DecDigits \o <<"A", "B", "C", "D", "E", "F">>

IsDigit(c, digits) == \E i \in 1..Len(digits) : digits[i] = c
IsHexDigit(c) == IsDigit(c, HexDigits) \/ IsDigit(c, HexUpper)
DigitVal(c) ==
    LET digits == IF IsDigit(c, HexDigits) THEN HexDigits ELSE HexUpper
    IN  (CHOOSE i \in 1..Len(digits) : digits[i] = c) - 1

RECURSIVE NumVal(_, _)
NumVal(s, radix) ==
    IF s = <<>> THEN 0
    ELSE NumVal(SubSeq(s, 1, Len(s) - 1), radix) * radix + DigitVal(s[Len(s)])

\* str::split(sep): the parts between the separators (one part if none).
RECURSIVE Split(_, _)
Split(s, sep) ==
    LET i == str_find(s, sep)
    IN  IF i = -1 THEN <<s>>
        ELSE <<Slice(s, 0, i)>> \o Split(Slice(s, i + 1, Len(s)), sep)

IsOctetText(t) ==
    /\ Len(t) \in 1..3
    /\ \A i \in 1..Len(t) : IsDigit(t[i], DecDigits)
    /\ Len(t) > 1 => t[1] # "0"
    /\ NumVal(t, 10) <= 255

IsGroupText(t) ==
    /\ Len(t) \in 1..4
    /\ \A i \in 1..Len(t) : IsHexDigit(t[i])

ParseV4(s) ==
    LET parts == Split(s, ".")
    IN  IF Len(parts) = 4 /\ \A i \in 1..4 : IsOctetText(parts[i])
        THEN Present([family |-> "V4",
                      octets |-> [i \in 1..4 |-> NumVal(parts[i], 10)]])
        ELSE Absent

GroupOctets(groups) ==
    [i \in 1..(2 * Len(groups)) |->
        LET g == NumVal(groups[(i + 1) \div 2], 16)
        IN  IF i % 2 = 1 THEN g \div 256 ELSE g % 256]

GroupsOf(t) == IF t = <<>> THEN <<>> ELSE Split(t, ":")

ParseV6(s) ==
    LET gaps == {i \in 1..(Len(s) - 1) : s[i] = ":" /\ s[i + 1] = ":"}
    IN  IF gaps = {}
        THEN LET groups == Split(s, ":")
             IN  IF Len(groups) = 8 /\ \A i \in 1..8 : IsGroupText(groups[i])
                 THEN Present([family |-> "V6", octets |-> GroupOctets(groups)])
                 ELSE Absent
        ELSE IF Cardinality(gaps) > 1 THEN Absent
        ELSE LET g == CHOOSE i \in gaps : TRUE
                 left == GroupsOf(Slice(s, 0, g - 1))
                 right == GroupsOf(Slice(s, g + 1, Len(s)))
                 zeros == [i \in 1..(8 - Len(left) - Len(right)) |-> <<"0">>]
             IN  IF /\ Len(left) + Len(right) <= 7
                    /\ \A i \in 1..Len(left) : IsGroupText(left[i])
                    /\ \A i \in 1..Len(right) : IsGroupText(right[i])
                 THEN Present([family |-> "V6",
                               octets |-> GroupOctets(left \o zeros \o right)])
                 ELSE Absent

ParseIp(s) == IF ParseV4(s) # Absent THEN ParseV4(s) ELSE ParseV6(s)

(***************************************************************************)
(* Certificates as the accessors present them.  A GeneralName is           *)
(* [kind, value]: kind "dns" (value a string), "ip" (value the raw bytes)  *)
(* or "email".  A common name is [kind, text]: kind "none" (no CN entry),  *)
(* "invalid_utf8" or "text".                                               *)
(***************************************************************************)
dnsname(name) == IF name.kind = "dns" THEN Present(name.value) ELSE Absent
ipaddress(name) == IF name.kind = "ip" THEN Present(name.value) ELSE Absent

\* A variant that accepts an entry that merely begins with the address.
matches_ip_prefix(expected, actual) ==
    /\ Len(actual) >= Len(expected.octets)
    /\ SubSeq(actual, 1, Len(expected.octets)) = expected.octets

matches_ip(expected, actual) ==
    IF expected.family = "V4" THEN actual = expected.octets
    ELSE actual = expected.octets

RECURSIVE san_loop(_, _, _, _)
san_loop(dom, ip, names, i) ==
    IF i > Len(names) THEN FALSE
    ELSE IF ip # Absent
         THEN IF ipaddress(names[i]) # Absent
                 /\ matches_ip(Unwrap(ip), Unwrap(ipaddress(names[i])))
              THEN TRUE
              ELSE san_loop(dom, ip, names, i + 1)
         ELSE IF dnsname(names[i]) # Absent
                 /\ matches_dns(Unwrap(dnsname(names[i])), dom)
              THEN TRUE
              ELSE san_loop(dom, ip, names, i + 1)

verify_subject_alt_names(dom, names) == san_loop(dom, ParseIp(dom), names, 1)

verify_subject_name(dom, subject_name) ==
    IF subject_name.kind = "none" THEN FALSE
    ELSE IF subject_name.kind = "invalid_utf8" THEN FALSE
    ELSE IF ParseIp(dom) # Absent
         THEN ParseIp(subject_name.text) # Absent
                /\ Unwrap(ParseIp(subject_name.text)) = Unwrap(ParseIp(dom))
         ELSE matches_dns(subject_name.text, dom)

\* A variant that falls back to the common name when no SAN entry matched.
verify_hostname_cn_fallback(dom, c) ==
    IF c.san # Absent /\ verify_subject_alt_names(dom, Unwrap(c.san)) THEN TRUE
    ELSE verify_subject_name(dom, c.cn)

verify_hostname(dom, c) ==
    IF c.san # Absent THEN verify_subject_alt_names(dom, Unwrap(c.san))
    ELSE verify_subject_name(dom, c.cn)

(***************************************************************************)
(* verify::verify_callback.  ssl_ref is what the lookup of the Ssl in the   *)
(* store context's ex data gives; the result is the returned bool and the  *)
(* context's error code.                                                   *)
(***************************************************************************)
\* The HOSTNAME_IDX ex data of the Ssl found in the store context, if any.
hostname_ex_data(ssl_ref) ==
    IF ssl_ref = Absent THEN Absent ELSE Unwrap(ssl_ref).ex_hostname

\* A variant that checks the hostname at every chain position.
verify_callback_any_depth(preverify_ok, error_depth, current_cert, ssl_ref, err) ==
    IF ~preverify_ok THEN [ret |-> preverify_ok, error |-> err]
    ELSE LET ex_domain == hostname_ex_data(ssl_ref)
             ok == IF current_cert # Absent /\ ex_domain # Absent
                   THEN verify_hostname(Unwrap(ex_domain), Unwrap(current_cert))
                   ELSE TRUE
         IN  [ret |-> ok,
              error |-> IF ~ok THEN "APPLICATION_VERIFICATION" ELSE err]

\* A variant that rejects when no domain is registered.
verify_callback_fail_closed(preverify_ok, error_depth, current_cert, ssl_ref, err) ==
    IF ~preverify_ok \/ error_depth # 0 THEN [ret |-> preverify_ok, error |-> err]
    ELSE LET ex_domain == hostname_ex_data(ssl_ref)
             ok == IF current_cert # Absent /\ ex_domain # Absent
                   THEN verify_hostname(Unwrap(ex_domain), Unwrap(current_cert))
                   ELSE FALSE
         IN  [ret |-> ok,
              error |-> IF ~ok THEN "APPLICATION_VERIFICATION" ELSE err]

verify_callback(preverify_ok, error_depth, current_cert, ssl_ref, err) ==
    IF ~preverify_ok \/ error_depth # 0 THEN [ret |-> preverify_ok, error |-> err]
    ELSE LET ex_domain == hostname_ex_data(ssl_ref)
             ok == IF current_cert # Absent /\ ex_domain # Absent
                   THEN verify_hostname(Unwrap(ex_domain), Unwrap(current_cert))
                   ELSE TRUE
         IN  [ret |-> ok,
              error |-> IF ~ok THEN "APPLICATION_VERIFICATION" ELSE err]

(***************************************************************************)
(* SslConnector::configure, the ConnectConfiguration setters and           *)
(* ConnectConfiguration::connect.  An Ssl is the record of what connect()  *)
(* can set on it: the SNI name, the HOSTNAME_IDX ex data (callback build)  *)
(* and the X509 verify parameters (native build).                          *)
(***************************************************************************)
NewSsl ==
    [servername |-> Absent, ex_hostname |-> Absent,
     hostflags |-> {}, param_ip |-> Absent, param_host |-> Absent]

configure == [ssl |-> NewSsl, sni |-> TRUE, verify_hostname |-> TRUE]

set_use_server_name_indication(self, use_sni) == [self EXCEPT !.sni = use_sni]

set_verify_hostname(self, flag) == [self EXCEPT !.verify_hostname = flag]

\* setup_verify_hostname of either build: the Ssl afterwards, the calls made
\* on it and whether the result is Ok.  `fails` is the outcome of the
\* fallible X509 parameter call (the callback build has none).
setup_verify_hostname(bld, ssl, dom, fails) ==
    IF bld = "native"
    THEN LET flagged == [ssl EXCEPT !.hostflags = {"NO_PARTIAL_WILDCARDS"}]
             ip == ParseIp(dom)
         IN  IF ip # Absent
             THEN [ssl |-> IF fails THEN flagged
                           ELSE [flagged EXCEPT !.param_ip = ip],
                   calls |-> <<"set_hostflags", "set_ip">>,
                   ok |-> ~fails]
             ELSE [ssl |-> IF fails THEN flagged
                           ELSE [flagged EXCEPT !.param_host = Present(dom)],
                   calls |-> <<"set_hostflags", "set_host">>,
                   ok |-> ~fails]
    ELSE [ssl |-> [ssl EXCEPT !.ex_hostname = Present(dom)],
          calls |-> <<"set_ex_data">>,
          ok |-> TRUE]

\* A variant of connect that registers the domain whatever the toggle says.
connect_always_verifies(bld, self, dom, set_hostname_fails, setup_fails) ==
    LET named == IF self.sni /\ ~set_hostname_fails
                 THEN [self.ssl EXCEPT !.servername = Present(dom)]
                 ELSE self.ssl
        calls1 == IF self.sni THEN <<"set_hostname">> ELSE <<>>
        setup == setup_verify_hostname(bld, named, dom, setup_fails)
    IN  IF self.sni /\ set_hostname_fails
        THEN [ssl |-> named, calls |-> calls1, started |-> FALSE]
        ELSE IF ~setup.ok
        THEN [ssl |-> setup.ssl, calls |-> calls1 \o setup.calls, started |-> FALSE]
        ELSE [ssl |-> setup.ssl,
              calls |-> calls1 \o setup.calls \o <<"connect">>,
              started |-> TRUE]

\* ConnectConfiguration::connect up to the point where the handshake is
\* handed to ssl.connect(stream): the Ssl afterwards, the calls made on it in
\* order, and whether the handshake was started (a `?` that fails returns).
connect(bld, self, dom, set_hostname_fails, setup_fails) ==
    LET named == IF self.sni /\ ~set_hostname_fails
                 THEN [self.ssl EXCEPT !.servername = Present(dom)]
                 ELSE self.ssl
        calls1 == IF self.sni THEN <<"set_hostname">> ELSE <<>>
        setup == IF self.verify_hostname
                 THEN setup_verify_hostname(bld, named, dom, setup_fails)
                 ELSE [ssl |-> named, calls |-> <<>>, ok |-> TRUE]
    IN  IF self.sni /\ set_hostname_fails
        THEN [ssl |-> named, calls |-> calls1, started |-> FALSE]
        ELSE IF ~setup.ok
        THEN [ssl |-> setup.ssl, calls |-> calls1 \o setup.calls, started |-> FALSE]
        ELSE [ssl |-> setup.ssl,
              calls |-> calls1 \o setup.calls \o <<"connect">>,
              started |-> TRUE]

(***************************************************************************)
(* Inputs of a connection attempt.                                         *)
(***************************************************************************)
TenText == <<"1", "0", ".", "0", ".", "0", ".", "1">>
TenTwoText == <<"1", "0", ".", "0", ".", "0", ".", "2">>
LoopbackText == <<":", ":", "1">>

TenBytes == <<10, 0, 0, 1>>
LoopbackBytes == <<0, 0, 0, 0, 0, 0, 0, 0, 0, 0, 0, 0, 0, 0, 0, 1>>
TenPrefixedBytes == <<10, 0, 0, 1, 0, 0, 0, 0, 0, 0, 0, 0, 0, 0, 0, 0>>

Domains ==
    {WwwExampleCom, ExampleCom, ExampleComDot, TenText, TenTwoText, LoopbackText}

SanEntries ==
    {[kind |-> "dns", value |-> StarExampleCom],
     [kind |-> "dns", value |-> ExampleCom],
     [kind |-> "dns", value |-> TenText],
     [kind |-> "ip", value |-> TenBytes],
     [kind |-> "ip", value |-> LoopbackBytes],
     [kind |-> "ip", value |-> TenPrefixedBytes],
     [kind |-> "email", value |-> ExampleCom]}

RECURSIVE SeqsUpTo(_, _)
SeqsUpTo(S, n) ==
    IF n = 0 THEN {<<>>}
    ELSE LET shorter == SeqsUpTo(S, n - 1)
         IN shorter \cup {Append(q, e) : q \in shorter, e \in S}

CommonNames ==
    {[kind |-> "none", text |-> <<>>],
     [kind |-> "invalid_utf8", text |-> <<>>],
     [kind |-> "text", text |-> ExampleCom],
     [kind |-> "text", text |-> WwwExampleCom],
     [kind |-> "text", text |-> TenText]}

LeafCerts ==
    {[san |-> s, cn |-> c] :
        s \in {Absent} \cup {Present(q) : q \in SeqsUpTo(SanEntries, MaxSan)},
        c \in CommonNames}

\* The certificate of an issuer higher up the chain.
CaCert == [san |-> Absent, cn |-> [kind |-> "text", text |-> <<"C", "A">>]]

CertsAt(d) == IF d = 0 THEN LeafCerts ELSE {CaCert}

(***************************************************************************)
(* The configuration profiles: ctx(), SslConnector::builder,               *)
(* SslAcceptor::mozilla_intermediate and SslAcceptor::mozilla_modern.      *)
(* Option and mode flags are sets of flag names; a cipher list is the      *)
(* sequence of the ':'-separated items of the string, each item the        *)
(* sequence of its '-'-separated parts (a rule such as "!DSS" is one part).*)
(***************************************************************************)
ReleaseBuffersMin == 268439680

\* The libraries a build can link against: the cfg flags the build script
\* sets and the value of version::number().
Platforms ==
    {[cfgs |-> {}, number |-> 268439679],
     [cfgs |-> {}, number |-> 268439695],
     [cfgs |-> {"ossl102"}, number |-> 268443663],
     [cfgs |-> {"ossl102", "ossl110"}, number |-> 269484047],
     [cfgs |-> {"ossl102", "ossl110", "ossl111"}, number |-> 269488143],
     [cfgs |-> {"libressl", "libressl261"}, number |-> 536870912]}

SslOptionsAll == {"DONT_INSERT_EMPTY_FRAGMENTS", "BUG_WORKAROUNDS"}

NewContextBuilder ==
    [options |-> {}, mode |-> {}, cipher_list |-> <<>>, verify |-> "NONE",
     default_verify_paths |-> FALSE, tmp_dh |-> "none", ecdh |-> "default"]

ctx(plat) ==
    LET opts == (SslOptionsAll
                    \cup {"NO_COMPRESSION", "NO_SSLV2", "NO_SSLV3", "SINGLE_DH_USE",
                          "SINGLE_ECDH_USE", "CIPHER_SERVER_PREFERENCE"})
                 \ {"DONT_INSERT_EMPTY_FRAGMENTS"}
        mode == {"AUTO_RETRY", "ACCEPT_MOVING_WRITE_BUFFER", "ENABLE_PARTIAL_WRITE"}
                 \cup (IF plat.number >= ReleaseBuffersMin
                       THEN {"RELEASE_BUFFERS"} ELSE {})
    IN  [NewContextBuilder EXCEPT !.options = opts, !.mode = mode]

setup_curves(plat, c) ==
    IF "ossl110" \in plat.cfgs THEN c
    ELSE IF "ossl102" \in plat.cfgs \/ "libressl" \in plat.cfgs
    THEN [c EXCEPT !.ecdh = "auto"]
    ELSE [c EXCEPT !.ecdh = "X9_62_PRIME256V1"]

setup_verify(plat, c) ==
    IF "ossl102" \in plat.cfgs \/ "libressl261" \in plat.cfgs
    THEN [c EXCEPT !.verify = "PEER"]
    ELSE [c EXCEPT !.verify = "PEER+verify_callback"]

ClientCipherList ==
    <<<<"DEFAULT">>,
      <<"!aNULL">>,
      <<"!eNULL">>,
      <<"!MD5">>,
      <<"!3DES">>,
      <<"!DES">>,
      <<"!RC4">>,
      <<"!IDEA">>,
      <<"!SEED">>,
      <<"!aDSS">>,
      <<"!SRP">>,
      <<"!PSK">>>>

IntermediateCipherList ==
    <<<<"ECDHE", "ECDSA", "CHACHA20", "POLY1305">>,
      <<"ECDHE", "RSA", "CHACHA20", "POLY1305">>,
      <<"ECDHE", "ECDSA", "AES128", "GCM", "SHA256">>,
      <<"ECDHE", "RSA", "AES128", "GCM", "SHA256">>,
      <<"ECDHE", "ECDSA", "AES256", "GCM", "SHA384">>,
      <<"ECDHE", "RSA", "AES256", "GCM", "SHA384">>,
      <<"DHE", "RSA", "AES128", "GCM", "SHA256">>,
      <<"DHE", "RSA", "AES256", "GCM", "SHA384">>,
      <<"ECDHE", "ECDSA", "AES128", "SHA256">>,
      <<"ECDHE", "RSA", "AES128", "SHA256">>,
      <<"ECDHE", "ECDSA", "AES128", "SHA">>,
      <<"ECDHE", "RSA", "AES256", "SHA384">>,
      <<"ECDHE", "RSA", "AES128", "SHA">>,
      <<"ECDHE", "ECDSA", "AES256", "SHA384">>,
      <<"ECDHE", "ECDSA", "AES256", "SHA">>,
      <<"ECDHE", "RSA", "AES256", "SHA">>,
      <<"DHE", "RSA", "AES128", "SHA256">>,
      <<"DHE", "RSA", "AES128", "SHA">>,
      <<"DHE", "RSA", "AES256", "SHA256">>,
      <<"DHE", "RSA", "AES256", "SHA">>,
      <<"ECDHE", "ECDSA", "DES", "CBC3", "SHA">>,
      <<"ECDHE", "RSA", "DES", "CBC3", "SHA">>,
      <<"EDH", "RSA", "DES", "CBC3", "SHA">>,
      <<"AES128", "GCM", "SHA256">>,
      <<"AES256", "GCM", "SHA384">>,
      <<"AES128", "SHA256">>,
      <<"AES256", "SHA256">>,
      <<"AES128", "SHA">>,
      <<"AES256", "SHA">>,
      <<"DES", "CBC3", "SHA">>,
      <<"!DSS">>>>

ModernCipherList ==
    <<<<"ECDHE", "ECDSA", "AES256", "GCM", "SHA384">>,
      <<"ECDHE", "RSA", "AES256", "GCM", "SHA384">>,
      <<"ECDHE", "ECDSA", "CHACHA20", "POLY1305">>,
      <<"ECDHE", "RSA", "CHACHA20", "POLY1305">>,
      <<"ECDHE", "ECDSA", "AES128", "GCM", "SHA256">>,
      <<"ECDHE", "RSA", "AES128", "GCM", "SHA256">>,
      <<"ECDHE", "ECDSA", "AES256", "SHA384">>,
      <<"ECDHE", "RSA", "AES256", "SHA384">>,
      <<"ECDHE", "ECDSA", "AES128", "SHA256">>,
      <<"ECDHE", "RSA", "AES128", "SHA256">>>>

connector_builder(plat) ==
    setup_verify(plat,
        [ctx(plat) EXCEPT !.default_verify_paths = TRUE,
                          !.cipher_list = ClientCipherList])

mozilla_intermediate(plat) ==
    LET c0 == ctx(plat)
        c1 == IF "ossl111" \in plat.cfgs
              THEN [c0 EXCEPT !.options = @ \cup {"NO_TLSV1_3"}] ELSE c0
        c2 == [c1 EXCEPT !.tmp_dh = "ffdhe2048"]
    IN  [setup_curves(plat, c2) EXCEPT !.cipher_list = IntermediateCipherList]

\* A variant of the modern profile that installs the intermediate list.
mozilla_modern_intermediate_list(plat) ==
    LET c0 == ctx(plat)
        c1 == [c0 EXCEPT !.options = @ \cup {"NO_TLSV1", "NO_TLSV1_1"}]
        c2 == IF "ossl111" \in plat.cfgs
              THEN [c1 EXCEPT !.options = @ \cup {"NO_TLSV1_3"}] ELSE c1
    IN  [setup_curves(plat, c2) EXCEPT !.cipher_list = IntermediateCipherList]

mozilla_modern(plat) ==
    LET c0 == ctx(plat)
        c1 == [c0 EXCEPT !.options = @ \cup {"NO_TLSV1", "NO_TLSV1_1"}]
        c2 == IF "ossl111" \in plat.cfgs
              THEN [c1 EXCEPT !.options = @ \cup {"NO_TLSV1_3"}] ELSE c1
    IN  [setup_curves(plat, c2) EXCEPT !.cipher_list = ModernCipherList]

(***************************************************************************)
(* The engine's side of accept(): which suites a cipher list enables and   *)
(* which one is selected for a client's offer.                             *)
(***************************************************************************)
IsRule(item) == Len(item) = 1 /\ item[1] \in {"DEFAULT", "!DSS"}

\* The suites a list of explicit suite names enables, in order ("!DSS"
\* removes the suites authenticated with DSS).
EnabledSuites(list) ==
    SelectSeq(list, LAMBDA item :
        ~IsRule(item) /\ \A i \in 1..Len(item) : item[i] # "DSS")

NoFlagOf(protocol) ==
    CASE protocol = "SSLv3" -> "NO_SSLV3"
      [] protocol = "TLSv1" -> "NO_TLSV1"
      [] protocol = "TLSv1.1" -> "NO_TLSV1_1"
      [] protocol = "TLSv1.2" -> "NO_TLSV1_2"

select_cipher(c, o) ==
    LET enabled == EnabledSuites(c.cipher_list)
        shared == {i \in 1..Len(enabled) : enabled[i] \in o.suites}
    IN  IF NoFlagOf(o.protocol) \in c.options \/ shared = {} THEN Absent
        ELSE Present(enabled[CHOOSE i \in shared : \A j \in shared : i <= j])

Protocols == {"SSLv3", "TLSv1", "TLSv1.1", "TLSv1.2"}

OfferableSuites == {IntermediateCipherList[i] : i \in 1..(Len(IntermediateCipherList) - 1)}

RECURSIVE SubsetsUpTo(_, _)
SubsetsUpTo(S, n) ==
    IF n = 0 THEN {{}}
    ELSE LET smaller == SubsetsUpTo(S, n - 1)
         IN smaller \cup {x \cup {e} : x \in smaller, e \in S}

Offers ==
    {[protocol |-> pr, suites |-> ss] :
        pr \in Protocols, ss \in SubsetsUpTo(OfferableSuites, MaxOffer)}

NoOffer == [protocol |-> "none", suites |-> {}]

ProfIdle ==
    /\ platform = [cfgs |-> {}, number |-> ReleaseBuffersMin]
    /\ profile = "none"
    /\ stage = "idle"
    /\ ctxb = NewContextBuilder
    /\ offer = NoOffer
    /\ chosen = Absent

(***************************************************************************)
(* Spec: connection attempts of a client, one after the other.             *)
(***************************************************************************)
DnsIdle ==
    /\ pattern = <<>>
    /\ hostname = <<>>
    /\ op = "idle"
    /\ ret = "unset"

NoAttempt ==
    /\ pc = "idle"
    /\ conf = configure
    /\ setlog = <<>>
    /\ calls = <<>>
    /\ domain = <<>>
    /\ cert = Absent
    /\ depth = 0
    /\ error = "OK"
    /\ last = Absent

Init ==
    /\ DnsIdle
    /\ ProfIdle
    /\ build \in {"callback", "native"}
    /\ NoAttempt

\* SslConnector::configure: a fresh ConnectConfiguration.
Configure ==
    /\ pc \in {"idle", "connected", "failed", "error"}
    /\ pc' = "configured"
    /\ conf' = configure
    /\ setlog' = <<>>
    /\ calls' = <<>>
    /\ domain' = <<>>
    /\ cert' = Absent
    /\ depth' = 0
    /\ error' = "OK"
    /\ last' = Absent
    /\ UNCHANGED <<build, dnsvars, profvars>>

SetUseServerNameIndication ==
    /\ pc = "configured"
    /\ Len(setlog) < MaxSetterCalls
    /\ \E use_sni \in BOOLEAN :
          /\ conf' = set_use_server_name_indication(conf, use_sni)
          /\ setlog' = Append(setlog, <<"sni", use_sni>>)
    /\ UNCHANGED <<build, pc, calls, domain, cert, depth, error, last, dnsvars, profvars>>

SetVerifyHostname ==
    /\ pc = "configured"
    /\ Len(setlog) < MaxSetterCalls
    /\ \E flag \in BOOLEAN :
          /\ conf' = set_verify_hostname(conf, flag)
          /\ setlog' = Append(setlog, <<"verify_hostname", flag>>)
    /\ UNCHANGED <<build, pc, calls, domain, cert, depth, error, last, dnsvars, profvars>>

\* ConnectConfiguration::connect, up to the start of the handshake.
Connect ==
    /\ pc = "configured"
    /\ \E dom \in Domains, set_hostname_fails \in BOOLEAN, setup_fails \in BOOLEAN :
          LET r == connect(build, conf, dom, set_hostname_fails, setup_fails)
          IN  /\ conf' = [conf EXCEPT !.ssl = r.ssl]
              /\ calls' = r.calls
              /\ domain' = dom
              /\ pc' = IF r.started THEN "handshake" ELSE "error"
    /\ setlog' = <<>>
    /\ UNCHANGED <<build, cert, depth, error, last, dnsvars, profvars>>

\* The engine starts to verify the peer's chain, topmost certificate first.
BeginChainWalk ==
    /\ pc = "handshake"
    /\ build = "callback"
    /\ \E n \in 1..MaxChain :
          \E c \in CertsAt(n - 1) :
              /\ depth' = n - 1
              /\ cert' = Present(c)
    /\ pc' = "verifying"
    /\ error' = "OK"
    /\ UNCHANGED <<build, conf, setlog, calls, domain, last, dnsvars, profvars>>

\* The engine checks the certificate at `depth` and calls verify_callback
\* with its verdict; a false return ends the handshake.
VerifyCallback ==
    /\ pc = "verifying"
    /\ \E preverify_ok \in BOOLEAN :
          LET err_in == IF preverify_ok THEN error ELSE "CERT_UNTRUSTED"
              r == verify_callback(preverify_ok, depth, cert,
                                   Present(conf.ssl), err_in)
          IN  /\ last' = Present([preverify_ok |-> preverify_ok,
                                  depth |-> depth,
                                  cert |-> cert,
                                  err_before |-> err_in,
                                  ret |-> r.ret,
                                  err_after |-> r.error])
              /\ error' = r.error
              /\ IF ~r.ret
                 THEN pc' = "failed" /\ UNCHANGED <<depth, cert>>
                 ELSE IF depth = 0
                 THEN pc' = "connected" /\ UNCHANGED <<depth, cert>>
                 ELSE /\ pc' = "verifying"
                      /\ depth' = depth - 1
                      /\ \E c \in CertsAt(depth - 1) : cert' = Present(c)
    /\ UNCHANGED <<build, conf, setlog, calls, domain, dnsvars, profvars>>

\* Native build: the engine verifies the chain and, when a host or address
\* was set on the verify parameters, matches it itself.
NativeVerify ==
    /\ pc = "handshake"
    /\ build = "native"
    /\ \E chain_ok \in BOOLEAN, name_ok \in BOOLEAN :
          LET checked == conf.ssl.param_host # Absent \/ conf.ssl.param_ip # Absent
          IN  /\ error' = IF ~chain_ok THEN "CERT_UNTRUSTED"
                          ELSE IF checked /\ ~name_ok THEN "HOSTNAME_MISMATCH"
                          ELSE "OK"
              /\ pc' = IF chain_ok /\ (checked => name_ok)
                       THEN "connected" ELSE "failed"
    /\ UNCHANGED <<build, conf, setlog, calls, domain, cert, depth, last, dnsvars, profvars>>

Next ==
    \/ Configure
    \/ SetUseServerNameIndication
    \/ SetVerifyHostname
    \/ Connect
    \/ BeginChainWalk
    \/ VerifyCallback
    \/ NativeVerify

Spec == Init /\ [][Next]_vars

ConnIdle ==
    /\ build = "callback"
    /\ NoAttempt

(***************************************************************************)
(* SpecProfile: a builder is requested, finalized, and (an acceptor) asked *)
(* to select a cipher suite for a client's offer.                          *)
(***************************************************************************)
ProfInit ==
    /\ DnsIdle
    /\ ConnIdle
    /\ platform \in Platforms
    /\ profile = "none"
    /\ stage = "none"
    /\ ctxb = NewContextBuilder
    /\ offer = NoOffer
    /\ chosen = Absent

\* SslConnector::builder
ConnectorBuilder ==
    /\ stage = "none"
    /\ profile' = "client"
    /\ ctxb' = connector_builder(platform)
    /\ stage' = "builder"
    /\ UNCHANGED <<platform, offer, chosen, dnsvars, connvars>>

\* SslAcceptor::mozilla_intermediate
MozillaIntermediate ==
    /\ stage = "none"
    /\ profile' = "intermediate"
    /\ ctxb' = mozilla_intermediate(platform)
    /\ stage' = "builder"
    /\ UNCHANGED <<platform, offer, chosen, dnsvars, connvars>>

\* SslAcceptor::mozilla_modern
MozillaModern ==
    /\ stage = "none"
    /\ profile' = "modern"
    /\ ctxb' = mozilla_modern(platform)
    /\ stage' = "builder"
    /\ UNCHANGED <<platform, offer, chosen, dnsvars, connvars>>

\* SslConnectorBuilder::build / SslAcceptorBuilder::build
Build ==
    /\ stage = "builder"
    /\ stage' = "frozen"
    /\ UNCHANGED <<platform, profile, ctxb, offer, chosen, dnsvars, connvars>>

\* SslAcceptor::accept: the engine selects, in the server's order, the first
\* enabled suite the client offers, if the offered protocol is enabled.
Accept ==
    /\ stage = "frozen"
    /\ profile \in {"intermediate", "modern"}
    /\ \E o \in Offers :
          LET sel == select_cipher(ctxb, o)
          IN  /\ offer' = o
              /\ chosen' = sel
              /\ stage' = IF sel # Absent THEN "accepted" ELSE "rejected"
    /\ UNCHANGED <<platform, profile, ctxb, dnsvars, connvars>>

ProfNext ==
    \/ ConnectorBuilder
    \/ MozillaIntermediate
    \/ MozillaModern
    \/ Build
    \/ Accept

SpecProfile == ProfInit /\ [][ProfNext]_vars

(***************************************************************************)
(* SpecDns: the two matchers applied to every pattern / hostname pair      *)
(* within the bounds.                                                      *)
(***************************************************************************)
PatternChars == {"a", ".", "*"}
HostnameChars == {"a", "A", "."}

ExamplePatterns ==
    {StarExampleCom, FooStarExampleCom, StarCom, AceStarExampleCom,
     ExampleCom, ExampleComDot, CapExampleCom}

ExampleHostnames ==
    {FooExampleCom, FooBarExampleCom, ExampleCom, ExampleComDot, AceAExampleCom}

Patterns ==
    LET body == StringsUpTo(PatternChars, MaxPatLen)
    IN  body \cup {AcePrefix \o b : b \in body} \cup ExamplePatterns

Hostnames == StringsUpTo(HostnameChars, MaxHostLen) \cup ExampleHostnames

DnsInit ==
    /\ pattern \in Patterns
    /\ hostname \in Hostnames
    /\ op = "init"
    /\ ret = "unset"
    /\ ConnIdle
    /\ ProfIdle

CallMatchesWildcard ==
    /\ op = "init"
    /\ op' = "wildcard"
    /\ ret' = matches_wildcard(pattern, hostname)
    /\ UNCHANGED <<pattern, hostname, connvars, profvars>>

CallMatchesDns ==
    /\ op = "init"
    /\ op' = "dns"
    /\ ret' = matches_dns(pattern, hostname)
    /\ UNCHANGED <<pattern, hostname, connvars, profvars>>

DnsNext == CallMatchesWildcard \/ CallMatchesDns

SpecDns == DnsInit /\ [][DnsNext]_vars

(***************************************************************************)
(* Properties of the identity matcher, checked under SpecDns.              *)
(***************************************************************************)
\* The words of the matcher's contract, stated without the matcher.
FromFirstDot(s) == Slice(s, str_find(s, "."), Len(s))
FirstLabel(s) == Slice(s, 0, str_find(s, "."))
BeforeStar(label) == Slice(label, 0, str_find(label, "*"))
AfterStar(label) == Slice(label, str_find(label, "*") + 1, Len(label))

StartsAndEnds(pat, host) ==
    /\ starts_with(FirstLabel(host), BeforeStar(FirstLabel(pat)))
    /\ ends_with(FirstLabel(host), AfterStar(FirstLabel(pat)))

CountDots(s) == Cardinality({i \in 1..Len(s) : s[i] = "."})

StarOutsideFirstLabel(pat) ==
    /\ str_find(pat, "*") # -1
    /\ str_find(pat, ".") # -1
    /\ str_find(pat, "*") > str_find(pat, ".")

InapplicablePattern(pat) ==
    \/ starts_with(pat, AcePrefix)
    \/ str_find(pat, "*") = -1
    \/ CountDots(pat) < 2
    \/ StarOutsideFirstLabel(pat)

\* The three documented wildcard cases.
WildcardExamples ==
    (op = "wildcard" /\ pattern = StarExampleCom) =>
        /\ hostname = FooExampleCom => ret = Some(TRUE)
        /\ hostname = FooBarExampleCom => ret = Some(FALSE)
        /\ hostname = ExampleCom => ret = Some(FALSE)

\* C3 as stated: whenever matches_wildcard answers Some, it answers Some(true)
\* exactly when the parts from the first '.' onward are equal and the
\* hostname's first label starts with the text before the '*' and ends with
\* the text after it.
C3_AsStated ==
    (op = "wildcard" /\ ret # None) =>
        /\ ret = Some(TRUE) <=>
              /\ FromFirstDot(pattern) = FromFirstDot(hostname)
              /\ StartsAndEnds(pattern, hostname)
        /\ ret \in {Some(TRUE), Some(FALSE)}

\* C3 amended: as C3_AsStated, and in addition the text before the '*' and the
\* text after it must fit in the hostname's first label without overlapping
\* (the suffix is looked for in what remains of the label after the prefix).
C3_WildcardMatch ==
    /\ (op = "wildcard" /\ ret # None) =>
          /\ ret = Some(TRUE) <=>
                /\ FromFirstDot(pattern) = FromFirstDot(hostname)
                /\ StartsAndEnds(pattern, hostname)
                /\ Len(FirstLabel(hostname)) >=
                      Len(BeforeStar(FirstLabel(pattern)))
                        + Len(AfterStar(FirstLabel(pattern)))
          /\ ret \in {Some(TRUE), Some(FALSE)}
    /\ WildcardExamples

\* A prefix and a suffix that would overlap in the label: the answer is
\* Some(false) although the label starts with one and ends with the other.
C3_Witness ==
    /\ op = "wildcard"
    /\ ret = Some(FALSE)
    /\ FromFirstDot(pattern) = FromFirstDot(hostname)
    /\ StartsAndEnds(pattern, hostname)
    /\ BeforeStar(FirstLabel(pattern)) # <<>>

\* C4 as stated: None for a pattern that begins with "xn--", has no '*', has
\* fewer than two '.', or has its '*' outside the first label; Some for every
\* other pattern, whatever the hostname.
C4_AsStated ==
    op = "wildcard" =>
        /\ InapplicablePattern(pattern) => ret = None
        /\ ~InapplicablePattern(pattern) => ret \in {Some(TRUE), Some(FALSE)}

\* C4 amended: None for a pattern in one of the four cases; for every other
\* pattern, Some for every hostname that contains a '.', and None for every
\* hostname that contains none.
C4_Applicability ==
    /\ op = "wildcard" =>
          /\ InapplicablePattern(pattern) => ret = None
          /\ (~InapplicablePattern(pattern) /\ str_find(hostname, ".") # -1)
                => ret \in {Some(TRUE), Some(FALSE)}
          /\ (~InapplicablePattern(pattern) /\ str_find(hostname, ".") = -1)
                => ret = None
    /\ (op = "wildcard" /\ hostname = FooBarExampleCom
            /\ pattern \in {FooStarExampleCom, StarCom, AceStarExampleCom})
          => ret = None

\* A usable wildcard pattern against a hostname with no '.'.
C4_Witness ==
    /\ op = "wildcard"
    /\ ~InapplicablePattern(pattern)
    /\ str_find(hostname, ".") = -1
    /\ hostname # <<>>
    /\ ret = None

\* C5 as stated: the trailing-dot normalisation is idempotent on every
\* string, and appending a '.' to either argument never changes matches_dns.
C5_AsStated ==
    op = "dns" =>
        /\ StripTrailingDot(StripTrailingDot(pattern)) = StripTrailingDot(pattern)
        /\ StripTrailingDot(StripTrailingDot(hostname)) = StripTrailingDot(hostname)
        /\ ret = matches_dns(pattern \o Dot, hostname)
        /\ ret = matches_dns(pattern, hostname \o Dot)

\* C5 amended: the normalisation removes exactly one trailing '.', so it is
\* idempotent on every string that does not end in "..", and matches_dns is
\* unchanged when one '.' is appended to an argument that does not already
\* end in '.'; matches_dns("example.com.", "example.com") is true.
C5_TrailingDot ==
    op = "dns" =>
        /\ ~ends_with(pattern, Dot \o Dot) =>
              StripTrailingDot(StripTrailingDot(pattern)) = StripTrailingDot(pattern)
        /\ ~ends_with(hostname, Dot \o Dot) =>
              StripTrailingDot(StripTrailingDot(hostname)) = StripTrailingDot(hostname)
        /\ ~ends_with(pattern, Dot) => ret = matches_dns(pattern \o Dot, hostname)
        /\ ~ends_with(hostname, Dot) => ret = matches_dns(pattern, hostname \o Dot)
        /\ (pattern = ExampleComDot /\ hostname = ExampleCom) => ret = TRUE

C5_Witness ==
    /\ op = "dns"
    /\ pattern = ExampleComDot
    /\ hostname = ExampleCom
    /\ ret = TRUE

\* C6: when wildcard matching is inapplicable to the normalised arguments,
\* matches_dns is true exactly when they are identical, character for
\* character; arguments that differ only in letter case are rejected.
C6_NoCaseFolding ==
    LET p == StripTrailingDot(pattern)
        h == StripTrailingDot(hostname)
    IN  (op = "dns" /\ matches_wildcard(p, h) = None) =>
            /\ ret <=> (p = h)
            /\ (p # h /\ ToLower(p) = ToLower(h)) => ret = FALSE

C6_Witness ==
    /\ op = "dns"
    /\ pattern = CapExampleCom
    /\ hostname = ExampleCom
    /\ ret = FALSE

(***************************************************************************)
(* Properties of hostname verification and of a connection attempt,        *)
(* checked under Spec.                                                     *)
(***************************************************************************)
LastCall == Unwrap(last)
LastCert == Unwrap(LastCall.cert)

\* The last verify_callback invocation ran the hostname verifier.
HostnameChecked ==
    /\ last # Absent
    /\ LastCall.preverify_ok
    /\ LastCall.depth = 0
    /\ conf.ssl.ex_hostname # Absent

IsUsableKind(name) == name.kind \in {"dns", "ip"}

\* C1: for a certificate whose subject_alt_names() is Some, the outcome of
\* verify_hostname is that of verify_subject_alt_names on the SAN sequence,
\* whatever the subject common name; a SAN sequence with no DNS or IP entry
\* (an empty one included) is rejected.
C1_SanOverridesCn ==
    (HostnameChecked /\ LastCert.san # Absent) =>
        LET names == Unwrap(LastCert.san)
        IN  /\ LastCall.ret = verify_subject_alt_names(domain, names)
            /\ \A cn \in CommonNames :
                  verify_hostname(domain, [san |-> LastCert.san, cn |-> cn])
                      = LastCall.ret
            /\ (\A i \in 1..Len(names) : ~IsUsableKind(names[i]))
                  => LastCall.ret = FALSE

\* An empty SAN sequence, a common name equal to the domain, rejected.
C1_Witness ==
    /\ HostnameChecked
    /\ LastCert.san = Present(<<>>)
    /\ LastCert.cn = [kind |-> "text", text |-> domain]
    /\ LastCall.ret = FALSE
    /\ pc = "failed"

\* C2: with a SAN sequence, a domain that parses as an IP address is accepted
\* exactly when some IP entry equals its octets, and a domain that does not
\* is accepted exactly when some DNS entry matches it.
C2_AddressFamilies ==
    (HostnameChecked /\ LastCert.san # Absent) =>
        LET names == Unwrap(LastCert.san)
            ip == ParseIp(domain)
        IN  /\ ip # Absent =>
                  (LastCall.ret <=>
                      \E i \in 1..Len(names) :
                          /\ names[i].kind = "ip"
                          /\ names[i].value = Unwrap(ip).octets)
            /\ ip = Absent =>
                  (LastCall.ret <=>
                      \E i \in 1..Len(names) :
                          /\ names[i].kind = "dns"
                          /\ matches_dns(names[i].value, domain))

\* An IP domain, a DNS entry spelling the same address and an IP entry that
\* only begins with it: rejected.
C2_Witness ==
    /\ HostnameChecked
    /\ domain = TenText
    /\ LastCert.san = Present(<<[kind |-> "dns", value |-> TenText],
                                [kind |-> "ip", value |-> TenPrefixedBytes]>>)
    /\ LastCall.ret = FALSE

\* C7: a verify_callback invocation with preverification failed or at a
\* chain position other than 0 returns the incoming result and leaves the
\* result code as it was; at position 0 with preverification ok it returns
\* false exactly when a domain is registered on the handshake and the
\* hostname verifier rejects the certificate for it, and only then sets the
\* result code, to APPLICATION_VERIFICATION.
C7_CallbackFrame ==
    last # Absent =>
        LET acts == LastCall.preverify_ok /\ LastCall.depth = 0
            rejected == /\ acts
                        /\ conf.ssl.ex_hostname # Absent
                        /\ ~verify_hostname(domain, LastCert)
        IN  /\ ~acts => /\ LastCall.ret = LastCall.preverify_ok
                        /\ LastCall.err_after = LastCall.err_before
            /\ acts => LastCall.ret = ~rejected
            /\ rejected => LastCall.err_after = "APPLICATION_VERIFICATION"
            /\ ~rejected => LastCall.err_after = LastCall.err_before
            /\ error = LastCall.err_after
            /\ conf.ssl.ex_hostname \in {Absent, Present(domain)}

\* The leaf is reached with the chain valid so far and is rejected for the
\* registered domain.
C7_Witness ==
    /\ HostnameChecked
    /\ LastCall.ret = FALSE
    /\ LastCall.err_before = "OK"
    /\ error = "APPLICATION_VERIFICATION"
    /\ pc = "failed"

\* The value a toggle has after the setter calls of `log`.
RECURSIVE LastSet(_, _, _)
LastSet(log, name, default) ==
    IF log = <<>> THEN default
    ELSE IF log[Len(log)][1] = name THEN log[Len(log)][2]
    ELSE LastSet(SubSeq(log, 1, Len(log) - 1), name, default)

HandshakeStarted == pc \in {"handshake", "verifying", "connected", "failed"}

RegistrationCalls ==
    IF build = "callback" THEN <<"set_ex_data">>
    ELSE IF ParseIp(domain) # Absent THEN <<"set_hostflags", "set_ip">>
    ELSE <<"set_hostflags", "set_host">>

RegisteredDomain(ssl) ==
    IF build = "callback" THEN ssl.ex_hostname
    ELSE IF ssl.param_ip # Absent THEN ssl.param_ip
    ELSE ssl.param_host

ExpectedRegistration ==
    IF ~conf.verify_hostname THEN Absent
    ELSE IF build = "native" /\ ParseIp(domain) # Absent THEN ParseIp(domain)
    ELSE Present(domain)

\* C8: a ConnectConfiguration starts with both toggles enabled and each
\* setter changes only its own toggle; connect attaches the domain for name
\* indication iff send-name-indication is enabled and registers it for
\* hostname verification iff verify-hostname is enabled, both before the
\* handshake is started, and a failing step means it is never started.
C8_ConnectOrder ==
    /\ pc = "configured" =>
          /\ conf.sni = LastSet(setlog, "sni", TRUE)
          /\ conf.verify_hostname = LastSet(setlog, "verify_hostname", TRUE)
          /\ conf.ssl = NewSsl
    /\ HandshakeStarted =>
          /\ conf.ssl.servername = IF conf.sni THEN Present(domain) ELSE Absent
          /\ RegisteredDomain(conf.ssl) = ExpectedRegistration
          /\ calls = (IF conf.sni THEN <<"set_hostname">> ELSE <<>>)
                        \o (IF conf.verify_hostname THEN RegistrationCalls ELSE <<>>)
                        \o <<"connect">>
    /\ \A i \in 1..Len(calls) : calls[i] = "connect" => i = Len(calls)
    /\ pc = "error" =>
          /\ calls # <<>>
          /\ calls[Len(calls)] \in {"set_hostname", "set_ip", "set_host"}
          /\ \A i \in 1..Len(calls) : calls[i] # "connect"
          /\ last = Absent /\ cert = Absent

\* Name indication on, verification off, and the handshake under way with
\* nothing registered.
C8_Witness ==
    /\ HandshakeStarted
    /\ conf.sni /\ ~conf.verify_hostname
    /\ calls = <<"set_hostname", "connect">>
    /\ RegisteredDomain(conf.ssl) = Absent

\* C10: in the callback build, when connect() ran with verify-hostname
\* disabled, no domain is registered, every verify_callback invocation
\* returns the incoming preverification result and leaves the result code
\* alone, and the handshake fails only if preverification failed.
C10_DisabledNeverRejects ==
    (build = "callback" /\ ~conf.verify_hostname /\ HandshakeStarted) =>
        /\ conf.ssl.ex_hostname = Absent
        /\ error # "APPLICATION_VERIFICATION"
        /\ last # Absent =>
              /\ LastCall.ret = LastCall.preverify_ok
              /\ LastCall.err_after = LastCall.err_before
        /\ pc = "failed" => (last # Absent /\ ~LastCall.preverify_ok)

\* A valid chain whose leaf does not name the domain, accepted.
C10_Witness ==
    /\ build = "callback"
    /\ ~conf.verify_hostname
    /\ pc = "connected"
    /\ LastCall.depth = 0
    /\ ~verify_hostname(domain, LastCert)
    /\ error = "OK"

(***************************************************************************)
(* Properties of the server profiles, checked under SpecProfile.           *)
(***************************************************************************)
\* OpenSSL's suite names: the key exchange comes first when it is ephemeral
\* (a name without one uses static RSA key exchange); a GCM or CHACHA20
\* bulk cipher is AEAD, any other is a CBC cipher with the HMAC named last.
ForwardSecret(suite) == suite[1] \in {"ECDHE", "DHE", "EDH"}
Aead(suite) == \E i \in 1..Len(suite) : suite[i] \in {"GCM", "CHACHA20"}
CbcHmacSha2(suite) == ~Aead(suite) /\ suite[Len(suite)] \in {"SHA256", "SHA384"}

ModernInstalled == profile = "modern" /\ stage # "none"

\* C9 as stated: every suite of the list mozilla_modern installs is forward
\* secret and AEAD.
C9_AsStated ==
    ModernInstalled =>
        \A i \in 1..Len(ctxb.cipher_list) :
            /\ ForwardSecret(ctxb.cipher_list[i])
            /\ Aead(ctxb.cipher_list[i])

\* C9 amended: every suite of the list mozilla_modern installs is forward
\* secret (ECDHE key exchange, none static); the first six are AEAD and the
\* last four are AES-CBC suites with HMAC-SHA256 or HMAC-SHA384.  Whatever an
\* acceptor of that profile selects is forward secret.
C9_ModernForwardSecret ==
    ModernInstalled =>
        /\ Len(ctxb.cipher_list) = 10
        /\ \A i \in 1..Len(ctxb.cipher_list) :
              /\ ctxb.cipher_list[i][1] = "ECDHE"
              /\ ForwardSecret(ctxb.cipher_list[i])
              /\ i <= 6 => Aead(ctxb.cipher_list[i])
              /\ i > 6 => CbcHmacSha2(ctxb.cipher_list[i])
        /\ chosen # Absent => ForwardSecret(Unwrap(chosen))

\* A modern acceptor selects a CBC suite.
C9_Witness ==
    /\ ModernInstalled
    /\ stage = "accepted"
    /\ chosen = Present(<<"ECDHE", "RSA", "AES128", "SHA256">>)
    /\ ~Aead(Unwrap(chosen))

====
